---- MODULE Spec2Model ----
(***************************************************************************)
(* dash2gps: the frame-to-track pipeline (src/main.rs), the filesystem     *)
(* watcher (src/watcher.rs) and the coordinate parser (src/parser.rs).     *)
(*                                                                         *)
(* Text is a sequence of one-character strings.  The degree sign is the    *)
(* character DEG, a line break is the character NL.                        *)
(***************************************************************************)
EXTENDS Integers, Sequences, FiniteSets, TLC

VARIABLES
    threads,    \* main: args.threads
    interval,   \* main: args.interval
    start_date, \* main: the recording start time, or None
    driver,     \* main: the position of the driving thread
    spawned,    \* main: the number of workers pushed so far
    flag,       \* SHUTDOWN_REQUESTED
    ffmpeg,     \* the frame extractor subprocess
    written,    \* the number of frame files the extractor has closed
    watcher,    \* FsWatcher: "none", "created", "watching", "stopped"
    events,     \* notifications not yet delivered to the watcher callback
    queue,      \* the channel of frame paths
    wpc,        \* worker: position in process_frames_worker
    source,     \* worker: the frame it received, 0 outside the loop body
    last_coordinate,                \* worker local
    last_checkpoint_duration_sec,   \* worker local
    stdout,     \* lines printed with println!
    stderr,     \* lines printed with eprintln!
    result,     \* history: what processing each frame came to
    enqueuedBefore, \* history: frames enqueued while the flag was clear
    line,       \* parser: the text handed to the parser
    fields,     \* parser: the fields the text was assembled from
    parsed,     \* parser: the result of the parser, once it has run
    text_lines, \* parser: the lines the text was assembled from
    dms_fix,    \* parser: the fix handed to to_decimal
    decimal,    \* parser: the result of to_decimal, once it has run
    calls,      \* watcher on its own: the calls made on it, with their results
    rewritten   \* the number of times a closed frame file was closed again

parserVars == <<line, fields, parsed, text_lines, dms_fix, decimal>>
\* what the pipeline as main runs it leaves alone
sideVars == <<parserVars, calls, rewritten>>
configVars == <<threads, interval, start_date>>
driverVars == <<driver, spawned, flag>>
fsVars == <<ffmpeg, written, watcher, events>>
workerVars == <<wpc, source, last_coordinate, last_checkpoint_duration_sec>>
outVars == <<stdout, stderr, result>>
vars == <<configVars, driverVars, fsVars, queue, workerVars, outVars,
          enqueuedBefore, sideVars>>

(* Bounds *)
MaxThreads == 2
MaxFrames == 2

\* Option: None is the empty sequence, Some(x) the one-element sequence
None == <<>>
Some(x) == <<x>>

-----------------------------------------------------------------------------
(* Characters *)

DEG == "deg"
NL == "nl"
DigitChars == <<"0", "1", "2", "3", "4", "5", "6", "7", "8", "9">>
Digits == {DigitChars[i] : i \in 1..10}
DigitVal(c) == (CHOOSE i \in 1..10 : DigitChars[i] = c) - 1

I8Max == 127

-----------------------------------------------------------------------------
(* parser.rs: the regular expression of try_parse *)

\* a character class of the pattern
InClass(c, cls) ==
    CASE cls = "NS"   -> c \in {"N", "|", "S"}
      [] cls = "EW"   -> c \in {"E", "|", "W"}
      [] cls = "D"    -> c \in Digits
      [] cls = "ND"   -> c \notin Digits
      [] cls = "NDEG" -> c # DEG
      [] cls = "DEG"  -> c = DEG
      [] cls = "ANY"  -> c # NL

One(cls) == [cls |-> cls, star |-> FALSE]
Star(cls) == [cls |-> cls, star |-> TRUE]

\* ([N|S])[^\d]*(\d*)[^deg]*deg[^\d]*(\d*)[^\d]*(\d*).*
\* ([E|W])[^\d]*(\d*)[^deg]*deg[^\d]*(\d*)[^\d]*(\d*)
REGEX ==
    << One("NS"), Star("ND"), Star("D"), Star("NDEG"), One("DEG"),
       Star("ND"), Star("D"), Star("ND"), Star("D"), Star("ANY"),
       One("EW"), Star("ND"), Star("D"), Star("NDEG"), One("DEG"),
       Star("ND"), Star("D"), Star("ND"), Star("D") >>

\* the pattern items that are capture groups 1..8
GroupItem == <<1, 3, 7, 9, 11, 13, 17, 19>>

NoMatch == [ok |-> FALSE, lens |-> <<>>]

RECURSIVE Run(_, _, _)
\* the length of the longest run of characters of cls in s from position p
Run(s, p, cls) ==
    IF p <= Len(s) /\ InClass(s[p], cls) THEN 1 + Run(s, p + 1, cls) ELSE 0

RECURSIVE MatchAt(_, _, _), TryStar(_, _, _, _)
\* the preferred match of items i.. of REGEX at position p of s: greedy
\* repetitions, backtracking to shorter ones (leftmost-first semantics)
MatchAt(s, i, p) ==
    IF i > Len(REGEX) THEN [ok |-> TRUE, lens |-> <<>>]
    ELSE IF REGEX[i].star THEN TryStar(s, i, p, Run(s, p, REGEX[i].cls))
    ELSE IF p <= Len(s) /\ InClass(s[p], REGEX[i].cls)
         THEN LET r == MatchAt(s, i + 1, p + 1)
              IN  IF r.ok THEN [ok |-> TRUE, lens |-> <<1>> \o r.lens]
                  ELSE NoMatch
         ELSE NoMatch

TryStar(s, i, p, k) ==
    LET r == MatchAt(s, i + 1, p + k)
    IN  IF r.ok THEN [ok |-> TRUE, lens |-> <<k>> \o r.lens]
        ELSE IF k = 0 THEN NoMatch
        ELSE TryStar(s, i, p, k - 1)

RECURSIVE SumTo(_, _)
SumTo(lens, n) == IF n = 0 THEN 0 ELSE lens[n] + SumTo(lens, n - 1)

\* the first match of REGEX in s: the leftmost start that matches
FirstMatch(s) ==
    LET starts == {p \in 1..Len(s) : MatchAt(s, 1, p).ok}
    IN  IF starts = {} THEN [ok |-> FALSE, start |-> 0, lens |-> <<>>]
        ELSE LET p == CHOOSE q \in starts : \A r \in starts : q <= r
             IN  [ok |-> TRUE, start |-> p, lens |-> MatchAt(s, 1, p).lens]

\* the text of capture group g of match m in s
from_capture_as_str(s, m, g) ==
    LET i == GroupItem[g]
        b == m.start + SumTo(m.lens, i - 1)
    IN  SubSeq(s, b, b + m.lens[i] - 1)

-----------------------------------------------------------------------------
(* parser.rs: conversions *)

\* str::replace(from, "0")
Replace(s, from) == [i \in 1..Len(s) |-> IF s[i] = from THEN "0" ELSE s[i]]

RECURSIVE DecimalValue(_)
DecimalValue(ds) ==
    IF ds = <<>> THEN 0
    ELSE 10 * DecimalValue(SubSeq(ds, 1, Len(ds) - 1)) + DigitVal(ds[Len(ds)])

Err == [ok |-> FALSE]

\* str::parse::<i8>() of a run of digits
ParseI8(ds) ==
    IF ds = <<>> THEN Err
    ELSE IF DecimalValue(ds) > I8Max THEN Err
    ELSE [ok |-> TRUE, val |-> DecimalValue(ds)]

\* DirectionLat::from_str
ParseDirectionLat(t) ==
    IF t = <<"N">> THEN [ok |-> TRUE, val |-> "North"]
    ELSE IF t = <<"S">> THEN [ok |-> TRUE, val |-> "South"]
    ELSE Err

\* DirectionLon::from_str
ParseDirectionLon(t) ==
    IF t = <<"E">> THEN [ok |-> TRUE, val |-> "East"]
    ELSE IF t = <<"W">> THEN [ok |-> TRUE, val |-> "West"]
    ELSE Err

\* CoordinateDms::try_parse
try_parse(input) ==
    LET input_s == Replace(Replace(input, "O"), "Q")
        m == FirstMatch(input_s)
    IN  IF ~m.ok THEN Err
        ELSE
          LET f1 == ParseDirectionLat(from_capture_as_str(input_s, m, 1))
              f2 == ParseI8(from_capture_as_str(input_s, m, 2))
              f3 == ParseI8(from_capture_as_str(input_s, m, 3))
              f4 == ParseI8(from_capture_as_str(input_s, m, 4))
              f5 == ParseDirectionLon(from_capture_as_str(input_s, m, 5))
              f6 == ParseI8(from_capture_as_str(input_s, m, 6))
              f7 == ParseI8(from_capture_as_str(input_s, m, 7))
              f8 == ParseI8(from_capture_as_str(input_s, m, 8))
          IN  IF f1.ok /\ f2.ok /\ f3.ok /\ f4.ok /\ f5.ok /\ f6.ok /\ f7.ok /\ f8.ok
              THEN [ok |-> TRUE,
                    fix |-> [lat_direction |-> f1.val, lat_degree |-> f2.val,
                             lat_min |-> f3.val, lat_sec |-> f4.val,
                             lon_direction |-> f5.val, lon_degree |-> f6.val,
                             lon_min |-> f7.val, lon_sec |-> f8.val]]
              ELSE Err

RECURSIVE Split(_)
\* str::split("\n"): the pieces between line breaks, empty ones included
Split(t) ==
    IF \A i \in 1..Len(t) : t[i] # NL THEN <<t>>
    ELSE LET k == CHOOSE i \in 1..Len(t) :
                      t[i] = NL /\ \A j \in 1..(i - 1) : t[j] # NL
         IN  <<SubSeq(t, 1, k - 1)>> \o Split(SubSeq(t, k + 1, Len(t)))

RECURSIVE FlattenOk_UntilErr(_)
\* faulty variant: the first Err ends the iteration
FlattenOk_UntilErr(rs) ==
    IF rs = <<>> \/ ~Head(rs).ok THEN <<>>
    ELSE <<Head(rs).fix>> \o FlattenOk_UntilErr(Tail(rs))

RECURSIVE FlattenOk(_)
\* Iterator::flatten over Results: the Ok values, in order
FlattenOk(rs) ==
    IF rs = <<>> THEN <<>>
    ELSE (IF Head(rs).ok THEN <<Head(rs).fix>> ELSE <<>>) \o FlattenOk(Tail(rs))

parse_coordinate_from_lines(lines) ==
    LET pieces == Split(lines)
    IN  FlattenOk([i \in 1..Len(pieces) |-> try_parse(pieces[i])])

-----------------------------------------------------------------------------
(* parser.rs: the single-precision arithmetic of to_decimal.  An f32 that  *)
(* is neither NaN nor infinite is zero, man = 0, or man * 2^exp with       *)
(* 2^23 <= man < 2^24; neg is its sign bit.  Results are rounded to the    *)
(* nearest value, ties to the even mantissa.                               *)

F32Zero == [man |-> 0, exp |-> 0]

RECURSIVE Normal(_, _)
\* the f32 m * 2^e, for 0 <= m < 2^24
Normal(m, e) ==
    IF m = 0 THEN F32Zero
    ELSE IF m < 2^23 THEN Normal(2 * m, e - 1)
    ELSE [man |-> m, exp |-> e]

\* q * 2^e rounded, for 2^23 <= q < 2^24; up says the discarded part rounds up
Rounded(q, up, e) ==
    IF ~up THEN [man |-> q, exp |-> e]
    ELSE IF q + 1 = 2^24 THEN [man |-> 2^23, exp |-> e + 1]
    ELSE [man |-> q + 1, exp |-> e]

RECURSIVE DivSteps(_, _, _, _)
\* long division: q is the quotient so far, r the remainder, of a / (b * 2^e)
DivSteps(q, r, b, e) ==
    IF q < 2^23
    THEN IF 2 * r >= b THEN DivSteps(2 * q + 1, 2 * r - b, b, e - 1)
         ELSE DivSteps(2 * q, 2 * r, b, e - 1)
    ELSE Rounded(q, 2 * r > b \/ (2 * r = b /\ q % 2 = 1), e)

\* `a as f32 / b`, for an i8 a >= 0 and b one of 60.0, 3600.0
DivF32(a, b) == IF a = 0 THEN F32Zero ELSE DivSteps(a \div b, a % b, b, 0)

\* m shifted right by d bits, the bits shifted out kept as a sticky last bit
ShiftSticky(m, d) ==
    IF d >= 28 THEN 1
    ELSE LET q == m \div 2^d
         IN  IF m % 2^d # 0 /\ q % 2 = 0 THEN q + 1 ELSE q

\* x + y for x, y >= 0, exponent of x >= exponent of y, neither zero: the
\* mantissas carry three more bits (guard, round, sticky)
AddOrdered(x, y) ==
    LET t == 8 * x.man + ShiftSticky(8 * y.man, x.exp - y.exp)
        carry == t >= 2^27
        u == IF carry THEN (t \div 2) + (IF t % 2 = 1 /\ (t \div 2) % 2 = 0
                                         THEN 1 ELSE 0)
             ELSE t
        q == u \div 8
        g == u % 8
    IN  Rounded(q, g > 4 \/ (g = 4 /\ q % 2 = 1),
                IF carry THEN x.exp + 1 ELSE x.exp)

\* x + y in f32, for x, y >= 0
AddF32(x, y) ==
    IF x.man = 0 THEN y
    ELSE IF y.man = 0 THEN x
    ELSE IF x.exp >= y.exp THEN AddOrdered(x, y)
    ELSE AddOrdered(y, x)

\* degree as f32 + (min as f32 / 60.0) + (sec as f32 / 3600.0)
Magnitude(degree, min, sec) ==
    AddF32(AddF32(Normal(degree, 0), DivF32(min, 60)), DivF32(sec, 3600))

\* faulty variant: the minutes are read as hundredths of a degree
to_decimal_Hundredths(dms) ==
    LET lat == AddF32(AddF32(Normal(dms.lat_degree, 0), DivF32(dms.lat_min, 100)),
                      DivF32(dms.lat_sec, 3600))
        lon == AddF32(AddF32(Normal(dms.lon_degree, 0), DivF32(dms.lon_min, 100)),
                      DivF32(dms.lon_sec, 3600))
    IN  [lat |-> [neg |-> dms.lat_direction = "South", abs |-> lat],
         lon |-> [neg |-> dms.lon_direction = "West", abs |-> lon]]

\* Coordinate::to_decimal: the two f32 that are formatted, lat and -lat for
\* North and South, lon and -lon for East and West.  `{}` prints the shortest
\* decimal numeral that reads back as the same f32, so the numeral stands
\* for the f32; the negation sets the sign bit, of a zero too (it prints -0)
to_decimal(dms) ==
    LET lat == Magnitude(dms.lat_degree, dms.lat_min, dms.lat_sec)
        lon == Magnitude(dms.lon_degree, dms.lon_min, dms.lon_sec)
    IN  [lat |-> [neg |-> dms.lat_direction = "South", abs |-> lat],
         lon |-> [neg |-> dms.lon_direction = "West", abs |-> lon]]

-----------------------------------------------------------------------------
(* The text the OCR engine returns for a frame *)

LineA == <<"N", "5", "1", DEG, "2", "5", " ", "4", "8", " ",
           "E", "O", DEG, "1", "9", " ", "2", "0">>
LineB == <<"S", "1", DEG, "2", " ", "3", "'", "W", "4", DEG, "5", " ", "6", "M">>
LineJunk == <<"n", "i", "g", "h", "t">>

OcrTexts == << LineJunk, LineJunk \o <<NL>> \o LineB \o <<NL>> \o LineA >>
OcrFixes == [t \in 1..Len(OcrTexts) |-> parse_coordinate_from_lines(OcrTexts[t])]

\* the fixes LineB and LineA hold, and their decimal forms, computed once
OcrCoordinates ==
    { [lat_direction |-> "South", lat_degree |-> 1, lat_min |-> 2, lat_sec |-> 3,
       lon_direction |-> "West", lon_degree |-> 4, lon_min |-> 5, lon_sec |-> 6],
      [lat_direction |-> "North", lat_degree |-> 51, lat_min |-> 25, lat_sec |-> 48,
       lon_direction |-> "East", lon_degree |-> 0, lon_min |-> 19, lon_sec |-> 20] }
Formatted == [c \in OcrCoordinates |-> to_decimal(c)]

\* Coordinate::to_decimal_with_format with the default template
to_decimal_with_format(c) == Formatted[c]

\* Coordinate::speed_from: distance from last to current over the duration
speed_from(current, last, secs) ==
    [from |-> Formatted[last], to |-> Formatted[current], secs |-> secs]

\* detect_location: an error, or the text of the frame
OcrErr == 0
Outcomes == {OcrErr} \cup (1..Len(OcrTexts))

-----------------------------------------------------------------------------
(* main.rs and watcher.rs: the pipeline *)

Workers == 1..MaxThreads
Frames == 1..MaxFrames
Intervals == {5, 10}
StartDates == {None, Some(1000)}
InitialDuration == 10

\* a notification: Err(_), or Ok(event) with its kind and paths
CloseWrite(f) == [ok |-> TRUE, kind |-> "close_write", paths |-> <<f>>]
NoiseEvents ==
    { [ok |-> TRUE, kind |-> k, paths |-> <<1>>] :
          k \in {"create", "metadata", "close_read"} }
    \cup { [ok |-> FALSE, kind |-> "error", paths |-> <<>>],
           [ok |-> TRUE, kind |-> "close_write", paths |-> <<>>] }

ParserIdle ==
    /\ line = <<>> /\ fields = None /\ parsed = None /\ text_lines = <<>>
    /\ dms_fix = None /\ decimal = None

\* the pipeline before main has run, for the given arguments
PipelineInit(n, i, d) ==
    /\ threads = n
    /\ interval = i
    /\ start_date = d
    /\ driver = "setup"
    /\ spawned = 0
    /\ flag = FALSE
    /\ ffmpeg = "notstarted"
    /\ written = 0
    /\ watcher = "none"
    /\ events = <<>>
    /\ queue = <<>>
    /\ wpc = [w \in Workers |-> "unspawned"]
    /\ source = [w \in Workers |-> 0]
    /\ last_coordinate = [w \in Workers |-> None]
    /\ last_checkpoint_duration_sec = [w \in Workers |-> InitialDuration]
    /\ stdout = <<>>
    /\ stderr = <<>>
    /\ result = [f \in Frames |-> None]
    /\ enqueuedBefore = {}
    /\ calls = <<>>
    /\ rewritten = 0

Init ==
    /\ \E n \in 0..MaxThreads, i \in Intervals, d \in StartDates :
          PipelineInit(n, i, d)
    /\ ParserIdle

\* Drop for FsWatcher, run when main's locals go out of scope
DropWatcher == IF watcher \in {"created", "watching"} THEN "stopped" ELSE watcher

\* main returns Err or panics: the locals are dropped, the flag stays clear.
\* The worker tasks are not cancelled: their loop has no await, so they run
\* on until their own loop condition ends them.
Abort ==
    /\ driver' = "aborted"
    /\ watcher' = DropWatcher
    /\ UNCHANGED <<spawned, flag>>

\* main, up to the creation of the workspace folders
DriverSetup ==
    /\ driver = "setup"
    /\ \/ driver' = "watcher_new" /\ UNCHANGED <<spawned, flag, watcher>>
       \/ Abort
    /\ UNCHANGED <<configVars, ffmpeg, written, events, queue,
                   workerVars, outVars, enqueuedBefore, sideVars>>

\* FsWatcher::new
WatcherNew ==
    /\ driver = "watcher_new"
    /\ \/ driver' = "watcher_start" /\ watcher' = "created"
          /\ UNCHANGED <<spawned, flag>>
       \/ Abort
    /\ UNCHANGED <<configVars, ffmpeg, written, events, queue,
                   workerVars, outVars, enqueuedBefore, sideVars>>

\* FsWatcher::start
WatcherStart ==
    /\ driver = "watcher_start"
    /\ \/ driver' = "spawn" /\ watcher' = "watching"
          /\ UNCHANGED <<spawned, flag>>
       \/ Abort
    /\ UNCHANGED <<configVars, ffmpeg, written, events, queue,
                   workerVars, outVars, enqueuedBefore, sideVars>>

\* one iteration of the loop that pushes process_frames_worker(..)
DriverSpawn ==
    /\ driver = "spawn"
    /\ spawned < threads
    /\ spawned' = spawned + 1
    /\ wpc' = [wpc EXCEPT ![spawned + 1] = "spawned"]
    /\ UNCHANGED <<configVars, driver, flag, fsVars, queue, source,
                   last_coordinate, last_checkpoint_duration_sec, outVars,
                   enqueuedBefore, sideVars>>

\* extract_frames: Command::spawn
DriverLaunchExtractor ==
    /\ driver = "spawn"
    /\ spawned = threads
    /\ \/ driver' = "wait" /\ ffmpeg' = "running"
          /\ UNCHANGED <<spawned, flag, watcher>>
       \/ ffmpeg' = "nospawn" /\ Abort
    /\ UNCHANGED <<configVars, written, events, queue,
                   workerVars, outVars, enqueuedBefore, sideVars>>

\* the extractor writes and closes the next numbered frame file: the
\* directory's watch reports some other notification, then the close
ExtractorWrite ==
    /\ ffmpeg = "running"
    /\ written < MaxFrames
    /\ written' = written + 1
    /\ \E e \in NoiseEvents :
          events' = events \o <<e, CloseWrite(written + 1)>>
    /\ UNCHANGED <<configVars, driverVars, ffmpeg, watcher, queue,
                   workerVars, outVars, enqueuedBefore, sideVars>>

\* the extractor exits, with a zero or a non-zero status
ExtractorExit ==
    /\ ffmpeg = "running"
    /\ ffmpeg' \in {"ok", "failed"}
    /\ UNCHANGED <<configVars, driverVars, written, watcher, events,
                   queue, workerVars, outVars, enqueuedBefore, sideVars>>

\* faulty variant: the callback publishes on every close, read-only ones included
Published_AnyClose(e) ==
    IF e.ok /\ e.kind \in {"close_write", "close_read"} /\ e.paths # <<>>
    THEN <<e.paths[1]>> ELSE <<>>

\* what the callback of FsWatcher::new sends for a notification
Published(e) ==
    IF e.ok /\ e.kind = "close_write" /\ e.paths # <<>>
    THEN <<e.paths[1]>> ELSE <<>>

\* the callback of FsWatcher::new, on the next notification
WatcherCallback ==
    /\ watcher = "watching"
    /\ events # <<>>
    /\ events' = Tail(events)
    /\ queue' = queue \o Published(Head(events))
    /\ enqueuedBefore' =
          IF flag THEN enqueuedBefore
          ELSE enqueuedBefore \cup {Published(Head(events))[i] :
                                       i \in 1..Len(Published(Head(events)))}
    /\ UNCHANGED <<configVars, driverVars, ffmpeg, written, watcher,
                   workerVars, outVars, sideVars>>

\* faulty variant: the exit status is not checked
DriverWait_IgnoreStatus ==
    /\ driver = "wait"
    /\ ffmpeg \in {"ok", "failed"}
    /\ driver' = "shutdown"
    /\ UNCHANGED <<configVars, spawned, flag, fsVars, queue,
                   workerVars, outVars, enqueuedBefore, sideVars>>

\* extract_frames: wait_with_output and the status check
DriverWait ==
    /\ driver = "wait"
    /\ \/ ffmpeg = "ok" /\ driver' = "shutdown"
          /\ UNCHANGED <<spawned, flag, watcher>>
       \/ ffmpeg = "failed" /\ Abort
    /\ UNCHANGED <<configVars, ffmpeg, written, events, queue,
                   workerVars, outVars, enqueuedBefore, sideVars>>

\* SHUTDOWN_REQUESTED.store(true)
DriverSetShutdown ==
    /\ driver = "shutdown"
    /\ flag' = TRUE
    /\ driver' = "join"
    /\ UNCHANGED <<configVars, spawned, fsVars, queue, workerVars, outVars,
                   enqueuedBefore, sideVars>>

AllExited == \A w \in 1..spawned : wpc[w] = "exited"

\* faulty variant: main returns without awaiting the workers
DriverJoin_NoWait ==
    /\ driver = "join"
    /\ driver' = "done"
    /\ watcher' = DropWatcher
    /\ UNCHANGED <<configVars, spawned, flag, ffmpeg, written, events,
                   queue, workerVars, outVars, enqueuedBefore, sideVars>>

\* join_all(workers).await, Ok(()) and the drop of main's locals
DriverJoin ==
    /\ driver = "join"
    /\ AllExited
    /\ driver' = "done"
    /\ watcher' = DropWatcher
    /\ UNCHANGED <<configVars, spawned, flag, ffmpeg, written, events,
                   queue, workerVars, outVars, enqueuedBefore, sideVars>>

-----------------------------------------------------------------------------
(* main.rs: process_frames_worker *)

\* the positions from which the loop condition is evaluated next: the task
\* has just been spawned, `continue` after a timeout, the end of the body
LoopHead == {"spawned", "continue", "next"}

\* faulty variant: the loop condition does not look at the flag
WorkerCheck_NoExit(w) ==
    /\ wpc[w] \in LoopHead
    /\ wpc' = [wpc EXCEPT ![w] = "recv"]
    /\ UNCHANGED <<configVars, driverVars, fsVars, queue, source,
                   last_coordinate, last_checkpoint_duration_sec, outVars,
                   enqueuedBefore, sideVars>>

\* while !SHUTDOWN_REQUESTED.load(..)
WorkerCheck(w) ==
    /\ wpc[w] \in LoopHead
    /\ wpc' = [wpc EXCEPT ![w] = IF flag THEN "exited" ELSE "recv"]
    /\ UNCHANGED <<configVars, driverVars, fsVars, queue, source,
                   last_coordinate, last_checkpoint_duration_sec, outVars,
                   enqueuedBefore, sideVars>>

\* faulty variant: the received path stays in the channel
WorkerRecv_Peek(w) ==
    /\ wpc[w] = "recv"
    /\ queue # <<>>
    /\ source' = [source EXCEPT ![w] = Head(queue)]
    /\ wpc' = [wpc EXCEPT ![w] = "process"]
    /\ UNCHANGED <<configVars, driverVars, fsVars, queue, last_coordinate,
                   last_checkpoint_duration_sec, outVars, enqueuedBefore,
                   sideVars>>

\* recv_timeout returns Ok(source)
WorkerRecv(w) ==
    /\ wpc[w] = "recv"
    /\ queue # <<>>
    /\ source' = [source EXCEPT ![w] = Head(queue)]
    /\ queue' = Tail(queue)
    /\ wpc' = [wpc EXCEPT ![w] = "process"]
    /\ UNCHANGED <<configVars, driverVars, fsVars, last_coordinate,
                   last_checkpoint_duration_sec, outVars, enqueuedBefore,
                   sideVars>>

\* recv_timeout returns Err(Timeout): continue
WorkerTimeout(w) ==
    /\ wpc[w] = "recv"
    /\ queue = <<>>
    /\ wpc' = [wpc EXCEPT ![w] = "continue"]
    /\ UNCHANGED <<configVars, driverVars, fsVars, queue, source,
                   last_coordinate, last_checkpoint_duration_sec, outVars,
                   enqueuedBefore, sideVars>>

Last(s) == s[Len(s)]

\* faulty variant: the duration starts again at one interval
Accumulate_Restart(secs) == interval

\* the duration after `last_checkpoint_duration_sec += interval`; a u32
\* that stays below InitialDuration + MaxFrames * interval, far from wrapping
Accumulate(secs) == secs + interval

\* the speed of a frame whose last fix is current
Speed(w, current) ==
    IF last_coordinate[w] # None
    THEN Some(speed_from(current, last_coordinate[w][1],
                         Accumulate(last_checkpoint_duration_sec[w])))
    ELSE None

RECURSIVE Decimal(_)
\* the decimal digits of n >= 0
Decimal(n) ==
    IF n < 10 THEN <<DigitChars[n + 1]>>
    ELSE Decimal(n \div 10) \o <<DigitChars[(n % 10) + 1]>>

RECURSIVE ZeroPad(_, _)
\* ds with zeros in front up to the given width
ZeroPad(ds, width) ==
    IF Len(ds) >= width THEN ds ELSE ZeroPad(<<"0">> \o ds, width)

\* the name the extractor gives its f-th frame file: f%09d.jpg
FileName(f) == <<"f">> \o ZeroPad(Decimal(f), 9) \o <<".", "j", "p", "g">>

\* file_name[1..10].parse::<i64>() - 1 for each frame file, computed once
FrameNos == [f \in Frames |-> DecimalValue(SubSeq(FileName(f), 2, 10)) - 1]

\* faulty variant: the number of the file name is used as it is
FrameNo_OneBased(f) == DecimalValue(SubSeq(FileName(f), 2, 10))

\* detect_location: out_name, the file the preprocessed image of frame f is
\* written to, in the folder all workers share
OutName(f) == FileName(f) \o <<"-", "e", "d", "i", "t", ".", "j", "p", "g">>

\* the number in the file name of frame f, made 0 based
FrameNo(f) == FrameNos[f]

\* the prefix of an output line
Prefix(f, speed) ==
    IF start_date # None
    THEN Some([time |-> start_date[1] + FrameNo(f) * interval,
               speed |-> speed])
    ELSE None

\* faulty variant: a line is printed for every frame that was read
Prints_Always(coordinates) == TRUE

\* does the worker print a line for these coordinates
Prints(coordinates) == coordinates # <<>>

\* the record of what processing frame f came to
Outcome(w, res, coordinates, speed) ==
    Some([worker |-> w, res |-> res, fixes |-> Len(coordinates),
          speed |-> speed])

\* faulty variant: a failed frame is sent back to the queue
ErrArm_Retry(w) ==
    /\ stderr' = Append(stderr, source[w])
    /\ result' = [result EXCEPT ![source[w]] = Outcome(w, "err", <<>>, None)]
    /\ queue' = Append(queue, source[w])
    /\ UNCHANGED <<stdout, last_coordinate, last_checkpoint_duration_sec>>

\* faulty variant: a failed frame counts as a frame read without a fix
ErrArm_Counts(w) ==
    /\ stderr' = Append(stderr, source[w])
    /\ result' = [result EXCEPT ![source[w]] = Outcome(w, "err", <<>>, None)]
    /\ last_checkpoint_duration_sec' =
          [last_checkpoint_duration_sec EXCEPT ![w] =
              Accumulate(last_checkpoint_duration_sec[w])]
    /\ UNCHANGED <<stdout, queue, last_coordinate>>

\* Err(e) => eprintln!(..)
ErrArm(w) ==
    /\ stderr' = Append(stderr, source[w])
    /\ result' = [result EXCEPT ![source[w]] = Outcome(w, "err", <<>>, None)]
    /\ UNCHANGED <<stdout, queue, last_coordinate, last_checkpoint_duration_sec>>

\* Ok(location) => .. for the text t
OkArm(w, t) ==
    LET f == source[w]
        coordinates == OcrFixes[t]
        found == coordinates # <<>>
        speed == IF found THEN Speed(w, Last(coordinates)) ELSE None
    IN  /\ last_coordinate' =
              IF found
              THEN [last_coordinate EXCEPT ![w] = Some(Last(coordinates))]
              ELSE last_coordinate
        /\ last_checkpoint_duration_sec' =
              [last_checkpoint_duration_sec EXCEPT ![w] =
                  IF found THEN 0
                  ELSE Accumulate(last_checkpoint_duration_sec[w])]
        /\ stdout' =
              IF Prints(coordinates)
              THEN Append(stdout,
                     [frame |-> f,
                      prefix |-> Prefix(f, speed),
                      coordinates |->
                         [i \in 1..Len(coordinates) |->
                             to_decimal_with_format(coordinates[i])]])
              ELSE stdout
        /\ result' = [result EXCEPT ![f] =
              Outcome(w, IF found THEN "fix" ELSE "nofix", coordinates, speed)]
        /\ UNCHANGED <<stderr, queue>>

\* the body of the loop for the received frame; o is what
\* detect_location returns
WorkerProcess(w, o) ==
    /\ wpc[w] = "process"
    /\ IF o = OcrErr THEN ErrArm(w) ELSE OkArm(w, o)
    /\ wpc' = [wpc EXCEPT ![w] = "next"]
    /\ source' = [source EXCEPT ![w] = 0]
    /\ UNCHANGED <<configVars, driverVars, fsVars, enqueuedBefore, sideVars>>

-----------------------------------------------------------------------------

Worker(w) ==
    \/ WorkerCheck(w)
    \/ WorkerRecv(w)
    \/ WorkerTimeout(w)
    \/ \E o \in Outcomes : WorkerProcess(w, o)

Driver ==
    \/ DriverSetup
    \/ WatcherNew
    \/ WatcherStart
    \/ DriverSpawn
    \/ DriverLaunchExtractor
    \/ DriverWait
    \/ DriverSetShutdown
    \/ DriverJoin

Next ==
    \/ Driver
    \/ ExtractorWrite
    \/ ExtractorExit
    \/ WatcherCallback
    \/ \E w \in Workers : Worker(w)

Spec == Init /\ [][Next]_vars

-----------------------------------------------------------------------------
(* The parser on its own: lines assembled from the fields of the overlay *)

LatHemis == {<<"N">>, <<"S">>, <<>>}
LonHemis == {<<"E">>, <<"W">>, <<>>}
DegreeRuns == {<<>>, <<"0">>, <<"O">>, <<"5", "1">>, <<"1", "2", "7">>,
               <<"1", "2", "8">>, <<"1", "8", "0">>}
MinSecRuns == {<<>>, <<"0">>, <<"Q">>, <<"2", "5">>, <<"5", "9">>}
Leads == {<<>>, <<"=", " ">>}
Trails == {<<>>, <<" ", "M">>}

\* latitude fields vary beside a fixed longitude, and the reverse
FieldSets ==
    { [pre |-> pre, post |-> post,
       lat_h |-> h, lat_d |-> d, lat_m |-> m, lat_s |-> x,
       lon_h |-> <<"E">>, lon_d |-> <<"0">>, lon_m |-> <<"1", "9">>,
       lon_s |-> <<"2", "0">>] :
         pre \in Leads, post \in Trails, h \in LatHemis, d \in DegreeRuns,
         m \in MinSecRuns, x \in MinSecRuns }
    \cup
    { [pre |-> pre, post |-> post,
       lat_h |-> <<"N">>, lat_d |-> <<"5", "1">>, lat_m |-> <<"2", "5">>,
       lat_s |-> <<"4", "8">>,
       lon_h |-> h, lon_d |-> d, lon_m |-> m, lon_s |-> x] :
         pre \in Leads, post \in Trails, h \in LonHemis, d \in DegreeRuns,
         m \in MinSecRuns, x \in MinSecRuns }

\* the overlay line with these fields: H d deg m s" H d deg m s"
BuildLine(x) ==
    x.pre \o x.lat_h \o x.lat_d \o <<DEG>> \o x.lat_m \o <<" ">> \o x.lat_s
          \o <<"'", " ">>
          \o x.lon_h \o x.lon_d \o <<DEG>> \o x.lon_m \o <<" ">> \o x.lon_s
          \o <<"'">> \o x.post

ParserInit ==
    /\ PipelineInit(0, 5, None)
    /\ fields \in {Some(x) : x \in FieldSets}
    /\ line = BuildLine(fields[1])
    /\ parsed = None
    /\ text_lines = <<>>
    /\ dms_fix = None /\ decimal = None

\* CoordinateDms::try_parse(line)
TryParse ==
    /\ parsed = None
    /\ parsed' = Some(try_parse(line))
    /\ UNCHANGED <<configVars, driverVars, fsVars, queue, workerVars, outVars,
                   enqueuedBefore, calls, rewritten, line, fields, text_lines,
                   dms_fix, decimal>>

ParserNext == TryParse

ParserSpec == ParserInit /\ [][ParserNext]_vars

-----------------------------------------------------------------------------
(* The parser on a text of several lines *)

MaxLines == 3

\* a line whose pattern matches but whose latitude degree is no i8
LineOver == <<"N", "1", "2", "8", DEG, "2", " ", "3", " ",
              "E", "4", DEG, "5", " ", "6">>

OcrLines == {LineA, LineB, LineJunk, LineOver, <<>>}

RECURSIVE JoinLines(_)
\* the text whose lines are ls: the lines with a line break between them
JoinLines(ls) ==
    IF Len(ls) = 1 THEN ls[1]
    ELSE ls[1] \o <<NL>> \o JoinLines(Tail(ls))

LinesInit ==
    /\ PipelineInit(0, 5, None)
    /\ text_lines \in UNION {[1..n -> OcrLines] : n \in 1..MaxLines}
    /\ line = JoinLines(text_lines)
    /\ fields = None
    /\ parsed = None
    /\ dms_fix = None /\ decimal = None

\* parse_coordinate_from_lines(line)
ParseLines ==
    /\ parsed = None
    /\ parsed' = Some(parse_coordinate_from_lines(line))
    /\ UNCHANGED <<configVars, driverVars, fsVars, queue, workerVars, outVars,
                   enqueuedBefore, calls, rewritten, line, fields, text_lines,
                   dms_fix, decimal>>

LinesNext == ParseLines

LinesSpec == LinesInit /\ [][LinesNext]_vars

-----------------------------------------------------------------------------
(* The decimal conversion on its own *)

Degrees == {0, 1, 51, 64, 127}
Minutes == {0, 1, 15, 25, 59}
Seconds == {0, 1, 45, 48, 59}

\* the fixes converted: every latitude beside a few longitudes
DmsFixes ==
    { [lat_direction |-> a, lat_degree |-> d, lat_min |-> m, lat_sec |-> x,
       lon_direction |-> b, lon_degree |-> e, lon_min |-> 3, lon_sec |-> y] :
         a \in {"North", "South"}, d \in Degrees, m \in Minutes, x \in Seconds,
         b \in {"East", "West"}, e \in {0, 127}, y \in {0, 45} }

DecimalInit ==
    /\ PipelineInit(0, 5, None)
    /\ line = <<>> /\ fields = None /\ parsed = None /\ text_lines = <<>>
    /\ dms_fix \in {Some(x) : x \in DmsFixes}
    /\ decimal = None

\* Coordinate::to_decimal(dms)
ToDecimal ==
    /\ decimal = None
    /\ decimal' = Some(to_decimal(dms_fix[1]))
    /\ UNCHANGED <<configVars, driverVars, fsVars, queue, workerVars, outVars,
                   enqueuedBefore, calls, rewritten, line, fields, parsed,
                   text_lines, dms_fix>>

DecimalNext == ToDecimal

DecimalSpec == DecimalInit /\ [][DecimalNext]_vars

-----------------------------------------------------------------------------
(* The watcher on its own: new, start, stop and drop called in any order   *)
(* while frame files are written and closed in the directory               *)

MaxCalls == 5

Call(op, ok) == [op |-> op, ok |-> ok]

\* the FsWatcher exists: it was created and has not been dropped
Alive == watcher # "none" /\ Last(calls).op # "drop"

\* faulty variant: unwatch leaves the registration in place
Unwatched_Keeps == watcher

\* the registration after unwatch(path): removed, if there was one
Unwatched == IF watcher = "watching" THEN "stopped" ELSE watcher

WatcherInit == PipelineInit(0, 5, None) /\ ParserIdle

\* FsWatcher::new: RecommendedWatcher::new(..) returns Ok or Err
ApiNew ==
    /\ watcher = "none"
    /\ Len(calls) < MaxCalls
    /\ \/ watcher' = "created" /\ calls' = Append(calls, Call("new", TRUE))
       \/ watcher' = watcher /\ calls' = Append(calls, Call("new", FALSE))
    /\ UNCHANGED <<configVars, driverVars, ffmpeg, written, events, queue,
                   workerVars, outVars, enqueuedBefore, parserVars, rewritten>>

\* FsWatcher::start: watch(path, Recursive) returns Ok or Err
ApiStart ==
    /\ Alive
    /\ Len(calls) < MaxCalls
    /\ \/ watcher' = "watching" /\ calls' = Append(calls, Call("start", TRUE))
       \/ watcher' = watcher /\ calls' = Append(calls, Call("start", FALSE))
    /\ UNCHANGED <<configVars, driverVars, ffmpeg, written, events, queue,
                   workerVars, outVars, enqueuedBefore, parserVars, rewritten>>

\* FsWatcher::stop: unwatch(path) returns Ok if the path was watched and
\* Err (watch not found) if it was not; `?` hands the Err to the caller
ApiStop ==
    /\ Alive
    /\ Len(calls) < MaxCalls
    /\ calls' = Append(calls, Call("stop", watcher = "watching"))
    /\ watcher' = Unwatched
    /\ UNCHANGED <<configVars, driverVars, ffmpeg, written, events, queue,
                   workerVars, outVars, enqueuedBefore, parserVars, rewritten>>

\* Drop for FsWatcher: `_ = self.stop()`, then the watcher is released
ApiDrop ==
    /\ Alive
    /\ Len(calls) < MaxCalls
    /\ calls' = Append(calls, Call("drop", TRUE))
    /\ watcher' = DropWatcher
    /\ UNCHANGED <<configVars, driverVars, ffmpeg, written, events, queue,
                   workerVars, outVars, enqueuedBefore, parserVars, rewritten>>

\* the next frame file is written and closed: a registered watch is notified
FileClosed ==
    /\ written < MaxFrames
    /\ written' = written + 1
    /\ events' = IF watcher = "watching"
                 THEN Append(events, CloseWrite(written + 1))
                 ELSE events
    /\ UNCHANGED <<configVars, driverVars, ffmpeg, watcher, queue,
                   workerVars, outVars, enqueuedBefore, sideVars>>

WatcherNext ==
    \/ ApiNew
    \/ ApiStart
    \/ ApiStop
    \/ ApiDrop
    \/ FileClosed
    \/ WatcherCallback

WatcherSpec == WatcherInit /\ [][WatcherNext]_vars

-----------------------------------------------------------------------------
(* The pipeline when a frame file can be closed after writing more than    *)
(* once: whatever opens a closed frame file for writing and closes it      *)
(* makes the watch report that file again                                  *)

MaxRewrites == 1

FileRewritten ==
    /\ watcher = "watching"
    /\ rewritten < MaxRewrites
    /\ rewritten' = rewritten + 1
    /\ \E f \in 1..written : events' = Append(events, CloseWrite(f))
    /\ UNCHANGED <<configVars, driverVars, ffmpeg, written, watcher, queue,
                   workerVars, outVars, enqueuedBefore, parserVars, calls>>

RewriteNext == Next \/ FileRewritten

RewriteSpec == Init /\ [][RewriteNext]_vars

-----------------------------------------------------------------------------
(* Fairness: every thread that can take a step eventually takes one *)

FairSpec ==
    /\ Spec
    /\ WF_vars(Driver)
    /\ WF_vars(ExtractorWrite)
    /\ WF_vars(ExtractorExit)
    /\ WF_vars(WatcherCallback)
    /\ \A w \in Workers : WF_vars(Worker(w))

-----------------------------------------------------------------------------
(* Properties *)

Processed(f) == result[f] # None
Res(f) == result[f][1]
ExtractorFailed == ffmpeg \in {"nospawn", "failed"}

\* C1: every frame enqueued before the driver set the shutdown flag has been
\* processed by a worker once the workers have all exited and the pipeline
\* has completed; none is left in the queue.
C1_ShutdownCompleteness ==
    (threads >= 1 /\ driver = "done") =>
        /\ \A f \in enqueuedBefore : Processed(f)
        /\ \A i \in 1..Len(queue) : queue[i] \notin enqueuedBefore

\* C2: a worker leaves its loop only when the flag is set and its most
\* recent poll of the queue timed out on an empty queue: it exits from the
\* `continue` of a timeout, never from the end of a frame or from the start.
C2_ExitOnlyAfterEmptyPoll ==
    [][\A w \in Workers :
          (wpc[w] # "exited" /\ wpc'[w] = "exited") =>
              (flag /\ wpc[w] = "continue")]_vars

\* C3: main returns Ok only in a state where every spawned worker has exited
\* its loop, and every requested worker was spawned.
C3_CompleteOnlyAfterJoin ==
    driver = "done" =>
        (spawned = threads /\ \A w \in 1..threads : wpc[w] = "exited")

C3_Witness ==
    /\ driver = "done"
    /\ threads = 2
    /\ \E f \in Frames : Processed(f) /\ Res(f).worker = 2

\* C4: the flag starts false, is set only by the driver's store after the
\* extractor has exited successfully, and is never reset; so whenever it is
\* set, extraction has completed.
C4_FlagDiscipline ==
    /\ ~flag
    /\ [](flag => ffmpeg = "ok")
    /\ [][flag => flag']_vars
    /\ [][(~flag /\ flag') =>
            (driver = "shutdown" /\ driver' = "join" /\ ffmpeg = "ok"
             /\ wpc' = wpc /\ queue' = queue /\ events' = events)]_vars

C4_Witness ==
    /\ flag
    /\ \E w \in Workers : wpc[w] = "process"
    /\ events # <<>>

\* a step of the watcher callback: it alone takes a notification
CallbackStep == Len(events') < Len(events)

\* C5 as stated: the callback enqueues exactly one path if the notification
\* is a successful close-after-write event, and leaves the queue unchanged
\* for every other notification.
C5_PublishIffCloseWrite ==
    [][CallbackStep =>
         IF Head(events).ok /\ Head(events).kind = "close_write"
         THEN Len(queue') = Len(queue) + 1
         ELSE queue' = queue]_vars

\* C5 as amended: the callback enqueues exactly one path, the first of the
\* event, if the notification is a successful close-after-write event that
\* carries a path, and leaves the queue unchanged for every other one.
C5_PublishIffCloseWriteWithPath ==
    [][CallbackStep =>
         IF /\ Head(events).ok
            /\ Head(events).kind = "close_write"
            /\ Head(events).paths # <<>>
         THEN queue' = Append(queue, Head(events).paths[1])
         ELSE queue' = queue]_vars

C5_Witness ==
    /\ written = 2
    /\ events = <<>>
    /\ queue = <<1, 2>>

\* the frames strictly between g and f were processed and gave no fix
NoFixBetween(g, f) ==
    \A k \in (g + 1)..(f - 1) : Processed(k) /\ Res(k).res = "nofix"

\* C6: when frames g < f both gave a fix and the K = f - g - 1 frames
\* between them gave none, the speed of frame f was computed over
\* (K + 1) * interval seconds.
C6_SpeedAccumulation ==
    \A g \in Frames, f \in Frames :
        ( /\ g < f
          /\ Processed(g) /\ Res(g).res = "fix"
          /\ Processed(f) /\ Res(f).res = "fix"
          /\ NoFixBetween(g, f) )
        => ( /\ Res(f).speed # None
             /\ Res(f).speed[1].secs = (f - g) * interval )

\* worker w finishes a frame whose pipeline returned an error
ErrStep(w) ==
    /\ wpc[w] = "process"
    /\ wpc'[w] # "process"
    /\ Len(stderr') = Len(stderr) + 1

\* C7: a frame that fails leaves its worker at the end of the loop body,
\* from where it evaluates the loop condition again; it leaves the
\* other workers as they were, the queue without the frame, and the driver
\* and the flag as they were.
C7_ErrorDoesNotAbort ==
    [][\A w \in Workers : ErrStep(w) =>
          /\ wpc'[w] = "next"
          /\ \A v \in Workers \ {w} :
                 wpc'[v] = wpc[v] /\ source'[v] = source[v]
          /\ queue' = queue
          /\ driver' = driver /\ flag' = flag
          /\ \A i \in 1..Len(queue') : queue'[i] # source[w]]_vars

C7_Witness ==
    /\ \E f \in Frames : Processed(f) /\ Res(f).res = "err" /\ Res(f).worker = 1
    /\ wpc[1] = "recv"
    /\ wpc[2] = "process"

LinesOf(f) == {i \in 1..Len(stdout) : stdout[i].frame = f}

\* C8: a processed frame with at least one fix has exactly one output line,
\* carrying all its fixes; a processed frame with no fix or with an error has
\* none; the output has as many lines as there are frames with a fix.
C8_OutputCardinality ==
    /\ \A f \in Frames : Processed(f) =>
          IF Res(f).res = "fix"
          THEN /\ Cardinality(LinesOf(f)) = 1
               /\ Res(f).fixes >= 1
               /\ \A i \in LinesOf(f) : Len(stdout[i].coordinates) = Res(f).fixes
          ELSE LinesOf(f) = {} /\ Res(f).fixes = 0
    /\ Len(stdout) =
          Cardinality({f \in Frames : Processed(f) /\ Res(f).res = "fix"})

C8_Witness ==
    /\ Len(stdout) = 1
    /\ Len(stdout[1].coordinates) = 2
    /\ \E f \in Frames : Processed(f) /\ Res(f).res = "fix"
    /\ \E f \in Frames : Processed(f) /\ Res(f).res # "fix"

\* C9: if the extractor cannot be launched or exits with a non-zero status,
\* the driver never declares the pipeline complete and every worker
\* eventually leaves its loop.
C9_ExtractorFailureAborts ==
    /\ [](ExtractorFailed => driver # "done")
    /\ ExtractorFailed ~> (\A w \in 1..spawned : wpc[w] = "exited")

\* the digits of a field after the O -> 0 and Q -> 0 substitutions
FieldValue(run) == DecimalValue(Replace(Replace(run, "O"), "Q"))

AllPresent(x) ==
    /\ x.lat_h # <<>> /\ x.lat_d # <<>> /\ x.lat_m # <<>> /\ x.lat_s # <<>>
    /\ x.lon_h # <<>> /\ x.lon_d # <<>> /\ x.lon_m # <<>> /\ x.lon_s # <<>>

InRange(x) ==
    /\ FieldValue(x.lat_d) \in 0..180 /\ FieldValue(x.lon_d) \in 0..180
    /\ FieldValue(x.lat_m) \in 0..59 /\ FieldValue(x.lat_s) \in 0..59
    /\ FieldValue(x.lon_m) \in 0..59 /\ FieldValue(x.lon_s) \in 0..59

FieldsFix(x) ==
    [lat_direction |-> IF x.lat_h = <<"N">> THEN "North" ELSE "South",
     lat_degree |-> FieldValue(x.lat_d),
     lat_min |-> FieldValue(x.lat_m),
     lat_sec |-> FieldValue(x.lat_s),
     lon_direction |-> IF x.lon_h = <<"E">> THEN "East" ELSE "West",
     lon_degree |-> FieldValue(x.lon_d),
     lon_min |-> FieldValue(x.lon_m),
     lon_sec |-> FieldValue(x.lon_s)]

\* C10: a line with all eight fields, degrees in 0..180 and minutes and
\* seconds in 0..59, parses to the fix with exactly those fields; a line with
\* a field absent parses to no fix.
C10_ParserFieldRecovery ==
    parsed # None =>
        /\ (AllPresent(fields[1]) /\ InRange(fields[1])) =>
              (parsed[1].ok /\ parsed[1].fix = FieldsFix(fields[1]))
        /\ ~AllPresent(fields[1]) => ~parsed[1].ok

RECURSIVE FixesOfLines(_)
\* the fixes of the lines ls, each parsed on its own, in line order
FixesOfLines(ls) ==
    IF ls = <<>> THEN <<>>
    ELSE (IF try_parse(Head(ls)).ok THEN <<try_parse(Head(ls)).fix>> ELSE <<>>)
         \o FixesOfLines(Tail(ls))

\* C11: the fixes of a text are the fixes of its lines, each parsed on its
\* own, in line order: a line gives at most one fix, and a line that does not
\* match or does not convert gives none and takes none away from the others.
C11_LinesIndependent ==
    parsed # None =>
        /\ parsed[1] = FixesOfLines(text_lines)
        /\ Len(parsed[1]) <= Len(text_lines)

C11_Witness ==
    /\ parsed # None
    /\ text_lines = <<LineOver, LineB, LineJunk>>
    /\ Len(parsed[1]) = 1

\* the arc-seconds of a degree, minute and second
ArcSec(degree, min, sec) == 3600 * degree + 60 * min + sec

RECURSIVE OddPart(_, _)
\* m * 2^e with the factors of two moved out of m
OddPart(m, e) ==
    IF m # 0 /\ m % 2 = 0 THEN OddPart(m \div 2, e + 1)
    ELSE [man |-> m, exp |-> e]

\* the f32 f is exactly n / 3600: with f = m * 2^e, m odd, and
\* 3600 = 225 * 2^4, that is m * 2^(e + 4) * 225 = n
IsArcSec(f, n) ==
    LET o == OddPart(f.man, f.exp)
    IN  IF n = 0 THEN f.man = 0
        ELSE /\ n % 225 = 0
             /\ o.exp + 4 \in 0..11
             /\ o.man <= n \div 225
             /\ o.man * 2^(o.exp + 4) = n \div 225

\* 3600 * f rounded to the nearest integer, for an f32 0 <= f < 256:
\* floor((floor(7200 * f) + 1) / 2), the mantissa multiplied in two halves
NearestArcSec(f) ==
    LET h == f.man \div 4096
        l == f.man % 4096
        k == 0 - f.exp
    IN  IF f.man = 0 THEN 0
        ELSE (((7200 * h + (7200 * l) \div 4096) \div 2^(k - 12)) + 1) \div 2

\* C12 as stated: the magnitude of the decimal latitude and longitude is
\* exactly degree + minute/60 + second/3600, and the value is negative exactly
\* for South and West.
C12_DecimalExact ==
    decimal # None =>
        LET c == dms_fix[1]
            r == decimal[1]
        IN  /\ IsArcSec(r.lat.abs, ArcSec(c.lat_degree, c.lat_min, c.lat_sec))
            /\ IsArcSec(r.lon.abs, ArcSec(c.lon_degree, c.lon_min, c.lon_sec))
            /\ r.lat.neg = (c.lat_direction = "South")
            /\ r.lon.neg = (c.lon_direction = "West")

\* C12 as amended: the magnitude is degree + minute/60 + second/3600 to the
\* nearest arc-second, 3600 times it rounds to 3600 * degree + 60 * minute +
\* second, and the sign is set exactly for South and West.
C12_DecimalNearest ==
    decimal # None =>
        LET c == dms_fix[1]
            r == decimal[1]
        IN  /\ NearestArcSec(r.lat.abs) = ArcSec(c.lat_degree, c.lat_min, c.lat_sec)
            /\ NearestArcSec(r.lon.abs) = ArcSec(c.lon_degree, c.lon_min, c.lon_sec)
            /\ r.lat.neg = (c.lat_direction = "South")
            /\ r.lon.neg = (c.lon_direction = "West")

C12_Witness ==
    /\ decimal # None
    /\ dms_fix[1].lat_direction = "South" /\ dms_fix[1].lon_direction = "East"
    /\ dms_fix[1].lat_degree = 51 /\ dms_fix[1].lat_min = 25 /\ dms_fix[1].lat_sec = 48
    /\ decimal[1].lat.neg /\ ~decimal[1].lon.neg
    /\ ~IsArcSec(decimal[1].lat.abs, ArcSec(51, 25, 48))

\* C13: when the start time is known, every output line carries the time
\* start + (n - 1) * interval, n being the extractor's 1-based number of the
\* line's frame, whichever worker printed the line and in whatever order.
C13_Timestamp ==
    start_date # None =>
        \A i \in 1..Len(stdout) :
            /\ stdout[i].prefix # None
            /\ stdout[i].prefix[1].time =
                   start_date[1] + (stdout[i].frame - 1) * interval

C13_Witness ==
    /\ start_date # None
    /\ interval = 10
    /\ Len(stdout) = 2
    /\ stdout[1].frame = 2 /\ stdout[2].frame = 1
    /\ Res(1).worker # Res(2).worker

\* a step that calls stop, directly or from drop
StopStep ==
    /\ Len(calls') = Len(calls) + 1
    /\ Last(calls').op \in {"stop", "drop"}

\* C14 as stated: every stop succeeds and leaves the watcher unregistered,
\* however many came before it and whether or not the watcher was started;
\* an unregistered watcher publishes nothing.
C14_StopIdempotent ==
    /\ [][StopStep => (Last(calls').ok /\ watcher' # "watching")]_vars
    /\ [][watcher # "watching" => queue' = queue]_vars

\* C14 as amended: every stop leaves the watcher unregistered and publishes
\* nothing; it returns Ok exactly when the watcher was registered, and an
\* error when it was not (a second stop, a stop without a start), which
\* drop discards; an unregistered watcher publishes nothing.
C14_StopSafe ==
    /\ [][StopStep =>
            /\ watcher' # "watching"
            /\ queue' = queue
            /\ Last(calls').op = "stop" =>
                   (Last(calls').ok <=> watcher = "watching")]_vars
    /\ [][watcher # "watching" => queue' = queue]_vars

C14_Witness ==
    /\ calls = <<Call("new", TRUE), Call("start", TRUE), Call("stop", TRUE),
                 Call("stop", FALSE), Call("drop", TRUE)>>
    /\ queue = <<1>>
    /\ events # <<>>

\* C15: once the extractor has exited successfully the driver sets the flag;
\* once the flag is set every spawned worker leaves its loop, the join
\* returns and the pipeline completes, for zero workers as for any number.
C15_Termination ==
    /\ (ffmpeg = "ok") ~> flag
    /\ flag ~> AllExited
    /\ flag ~> (driver = "done")

C15_Witness ==
    /\ flag
    /\ driver = "done"
    /\ threads = 2
    /\ \A w \in Workers : wpc[w] = "exited"
    /\ Len(stdout) = 2

\* the last fix printed on the output line of frame f
LastFixOf(f) ==
    LET i == CHOOSE j \in LinesOf(f) : TRUE
    IN  Last(stdout[i].coordinates)

\* the frames before f that gave a fix
FixesBefore(f) == {g \in 1..(f - 1) : Res(g).res = "fix"}

\* C16: once the frames up to f are processed and f gave a fix, the speed of
\* f runs from the fix of the nearest earlier frame with a fix to the fix
\* of f, and there is no speed only if no earlier frame gave a fix; for any
\* number of workers.
C16_OrderedSpeed ==
    \A f \in Frames :
        ((\A k \in 1..f : Processed(k)) /\ Res(f).res = "fix") =>
            LET earlier == FixesBefore(f)
            IN  IF earlier = {} THEN Res(f).speed = None
                ELSE LET g == CHOOSE x \in earlier : \A y \in earlier : y <= x
                     IN  /\ Res(f).speed # None
                         /\ Res(f).speed[1].from = LastFixOf(g)
                         /\ Res(f).speed[1].to = LastFixOf(f)

\* the callback has sent the path of frame f
Enqueued(f) ==
    /\ f <= written
    /\ \A i \in 1..Len(events) : events[i] # CloseWrite(f)

\* the places that hold the path of frame f: positions of the queue, workers
\* that received it and have it in hand, and the record of its processing
Places(f) ==
    Cardinality({i \in 1..Len(queue) : queue[i] = f})
    + Cardinality({w \in Workers : source[w] = f})
    + (IF Processed(f) THEN 1 ELSE 0)

\* C17: a path the watcher enqueued is in exactly one place, the queue, the
\* hands of one worker, or the record of its one processing, and a path it
\* did not enqueue is nowhere; a worker that receives takes the head of the
\* queue, and the queue loses it.
C17_ExactlyOnce ==
    /\ [](\A f \in Frames : Places(f) = IF Enqueued(f) THEN 1 ELSE 0)
    /\ [](\A w \in Workers : source[w] \in Frames \cup {0})
    /\ [][\A w \in Workers :
             (source[w] = 0 /\ source'[w] # 0) =>
                 /\ queue # <<>>
                 /\ source'[w] = Head(queue)
                 /\ queue' = Tail(queue)
                 /\ \A v \in Workers \ {w} : source'[v] = source[v]]_vars

C17_Witness ==
    /\ source[1] = 2
    /\ source[2] = 1
    /\ queue = <<>>
    /\ wpc[1] = "process" /\ wpc[2] = "process"

\* worker w is inside detect_location, which begins by creating out_name
\* and writing the preprocessed image to it
Preprocessing(w) == wpc[w] = "process"

\* C18: no two workers are inside the preprocessing of detect_location with
\* the same output file, whatever close-after-write events are published,
\* more than one for the same frame file included.
C18_PrivateOutput ==
    \A w \in Workers, v \in Workers :
        (w # v /\ Preprocessing(w) /\ Preprocessing(v)) =>
            OutName(source[w]) # OutName(source[v])

\* worker w finishes a frame whose pipeline returned its text
OkStep(w) ==
    /\ wpc[w] = "process"
    /\ wpc'[w] = "next"
    /\ stderr' = stderr

\* C19: a worker that finishes a frame with a fix has duration 0 and, as
\* its last fix, the last fix of the frame, and the frame has a speed
\* exactly if the worker had a fix before; a worker that finishes a frame
\* read without a fix has its duration grown by one interval and its last
\* fix as before, and the frame has no speed and no line.
C19_TrackStateUpdate ==
    [][\A w \in Workers : OkStep(w) =>
          LET r == result'[source[w]][1]
          IN  /\ r.worker = w
              /\ IF r.res = "fix"
                 THEN /\ last_checkpoint_duration_sec'[w] = 0
                      /\ last_coordinate'[w] # None
                      /\ \E t \in 1..Len(OcrTexts) :
                            /\ OcrFixes[t] # <<>>
                            /\ Len(OcrFixes[t]) = r.fixes
                            /\ last_coordinate'[w][1] = Last(OcrFixes[t])
                      /\ to_decimal_with_format(last_coordinate'[w][1])
                            = Last(Last(stdout').coordinates)
                      /\ (r.speed # None) <=> (last_coordinate[w] # None)
                 ELSE /\ r.res = "nofix"
                      /\ last_checkpoint_duration_sec'[w]
                            = last_checkpoint_duration_sec[w] + interval
                      /\ last_coordinate'[w] = last_coordinate[w]
                      /\ r.speed = None
                      /\ stdout' = stdout]_vars

C19_Witness ==
    /\ Processed(1) /\ Res(1).res = "fix" /\ Res(1).worker = 1
    /\ Processed(2) /\ Res(2).res = "nofix" /\ Res(2).worker = 1
    /\ last_coordinate[1] # None
    /\ last_checkpoint_duration_sec[1] = interval

\* the extractor was launched only with the watcher registered and every
\* worker spawned, and the directory is watched whenever a file is closed
LaunchedAfterStartup ==
    /\ [](ffmpeg # "notstarted" =>
             (watcher \in {"watching", "stopped"} /\ spawned = threads))
    /\ [][Len(events') > Len(events) =>
             (watcher = "watching" /\ spawned = threads)]_vars

\* a failed FsWatcher::new or start ends main with no worker and no extractor
NothingAfterFailedWatcher ==
    /\ [][(driver \in {"watcher_new", "watcher_start"} /\ driver' = "aborted")
             => (spawned' = 0 /\ ffmpeg' = "notstarted")]_vars
    /\ [][driver = "aborted" =>
             (driver' = "aborted" /\ spawned' = spawned /\ ffmpeg' = ffmpeg)]_vars

\* C20: the extractor is launched after the watcher is registered and all
\* workers are spawned; when a pipeline with workers completes, every frame
\* file that was closed while the extractor ran has had its path published,
\* none is missed; after a failed registration no worker and no extractor is
\* started.
C20_StartupOrdering ==
    /\ LaunchedAfterStartup
    /\ []((threads >= 1 /\ driver = "done") =>
             \A f \in 1..written : Enqueued(f))
    /\ NothingAfterFailedWatcher

\* C21: a worker that finishes a frame whose pipeline returned an error has
\* its last fix and its duration as before, the duration not grown by the
\* interval, and the output has no new line; the frame is recorded as failed,
\* with no fix and no speed.
C21_ErrorLeavesTrack ==
    [][\A w \in Workers : ErrStep(w) =>
          LET r == result'[source[w]][1]
          IN  /\ r.worker = w /\ r.res = "err"
              /\ r.fixes = 0 /\ r.speed = None
              /\ last_coordinate'[w] = last_coordinate[w]
              /\ last_checkpoint_duration_sec'[w]
                    = last_checkpoint_duration_sec[w]
              /\ stdout' = stdout
              /\ stderr' = Append(stderr, source[w])]_vars

\* worker 1 read a fix in frame 1 and then failed on frame 2
C21_Witness ==
    /\ Processed(1) /\ Res(1).res = "fix" /\ Res(1).worker = 1
    /\ Processed(2) /\ Res(2).res = "err" /\ Res(2).worker = 1
    /\ stderr = <<2>>
    /\ last_coordinate[1] # None
    /\ last_checkpoint_duration_sec[1] = 0
    /\ Len(stdout) = 1

====
